---------------------------- MODULE Spec2Model ----------------------------
(***************************************************************************)
(* Model of the timetable layout engine of kw-timetable:                   *)
(*   parseLectureTime      (src/src/utils/parseLectureTime.ts)             *)
(*   mergeConsecutiveSlots, mergeOverlappingSlots, timeToMinutes and the   *)
(*   useMemo body of TimetableView (src/src/components/TimetableView.tsx)  *)
(*                                                                         *)
(* Strings are sequences of one-character strings.  The seven day labels   *)
(* are single Hangul characters in the source; they are written here by    *)
(* their romanisation: "wol" = 월, "hwa" = 화, "su" = 수, "mok" = 목,      *)
(* "geum" = 금, "to" = 토, "il" = 일.  Each of them is ONE character.      *)
(* The entry fields 학정번호, 분반, 강의시간 are the record fields          *)
(* code, section, lectureTime.                                             *)
(***************************************************************************)
EXTENDS Integers, Sequences, FiniteSets, TLC

VARIABLES
    entries,       \* props.entries of TimetableView: a list of entries
    customStart,   \* useState customStart : None (null) or Some(text)
    customEnd,     \* useState customEnd   : None (null) or Some(text)
    includedDays,  \* useState includedDays: None (null) or Some(list of days in insertion order)
    rendered,      \* FALSE until the useMemo body has run for the current inputs
    allSlots,      \* local allSlots of the memo: parsed slots of all entries
    mergedSlots,   \* local mergedSlots: output of mergeConsecutiveSlots
    groups,        \* the local `groups` of mergeOverlappingSlots, day after day
    displaySlots,  \* local displaySlots: output of mergeOverlappingSlots
    gridStart,     \* memo result
    gridEnd,       \* memo result
    days,          \* memo result
    blocks,        \* memo result: positioned blocks
    timeLabels,    \* memo timeLabels: minutes of the time-axis labels
    periodLabels,  \* memo periodLabels: the periods shown beside the grid
    totalMinutes,  \* the totalMinutes of the render, line 212
    timeCells,     \* style.top of each time-axis cell, lines 225-236
    periodCells,   \* style.top / style.height of each period cell, lines 279-294
    cart,              \* TimetableSearch useState cart: a list of entries
    currentPriority,   \* TimetableSearch useState currentPriority: 1..5
    savedTimetables,   \* TimetableSearch useState savedTimetables: priority -> list of keys
    timetableChecked,  \* TimetableSearch useState timetableChecked: a Set, in insertion order
    storage,           \* localStorage item 'kw-timetable-storage'
    allWritesOk,       \* no localStorage.setItem has thrown so far
    savePending,       \* the effect of lines 174-176 is scheduled and has not run
    opCount            \* handlers run since the mount

vars == <<entries, customStart, customEnd, includedDays, rendered, allSlots,
          mergedSlots, groups, displaySlots, gridStart, gridEnd, days, blocks,
          timeLabels, periodLabels, totalMinutes, timeCells, periodCells,
          cart, currentPriority, savedTimetables, timetableChecked, storage,
          allWritesOk, savePending, opCount>>

searchVars == <<cart, currentPriority, savedTimetables, timetableChecked, storage,
                allWritesOk, savePending, opCount>>

---------------------------------------------------------------------------
(* Generic helpers of the JavaScript runtime the code relies on.           *)

\* null / a value
None == <<>>
Some(x) == <<x>>
IsSome(m) == m # <<>>
TheValue(m) == m[1]

\* IEEE NaN, kept as one integer that no computation of the model produces
\* (clock minutes and their differences stay far above it)
NaN == -1000000000
IsNaN(v) == v = NaN

\* Math.max / Math.min on two numbers (NaN if either is NaN)
MathMax(a, b) == IF IsNaN(a) \/ IsNaN(b) THEN NaN ELSE IF a >= b THEN a ELSE b
MathMin(a, b) == IF IsNaN(a) \/ IsNaN(b) THEN NaN ELSE IF a <= b THEN a ELSE b
\* a - b, a < b, a <= b on numbers
NumSub(a, b) == IF IsNaN(a) \/ IsNaN(b) THEN NaN ELSE a - b
NumLt(a, b) == ~IsNaN(a) /\ ~IsNaN(b) /\ a < b
NumLe(a, b) == ~IsNaN(a) /\ ~IsNaN(b) /\ a <= b

Digits == <<"0", "1", "2", "3", "4", "5", "6", "7", "8", "9">>
IsDigit(c) == \E i \in 1..10 : Digits[i] = c
DigitValue(c) == (CHOOSE i \in 1..10 : Digits[i] = c) - 1
AllDigits(s) == \A i \in 1..Len(s) : IsDigit(s[i])

\* the value of a non-empty string of decimal digits (parseInt(s, 10), Number(s))
RECURSIVE DecimalValue(_)
DecimalValue(s) ==
    IF s = <<>> THEN 0
    ELSE DecimalValue(SubSeq(s, 1, Len(s) - 1)) * 10 + DigitValue(s[Len(s)])

\* \s of the regular expressions and of String.prototype.trim, restricted to
\* the whitespace characters of the modelled alphabet
WhiteSpace == {" "}

\* String.prototype.trim
RECURSIVE TrimStart(_)
TrimStart(s) ==
    IF s # <<>> /\ Head(s) \in WhiteSpace THEN TrimStart(Tail(s)) ELSE s
RECURSIVE TrimEnd(_)
TrimEnd(s) ==
    IF s # <<>> /\ s[Len(s)] \in WhiteSpace
    THEN TrimEnd(SubSeq(s, 1, Len(s) - 1)) ELSE s
Trim(s) == TrimEnd(TrimStart(s))

\* String.prototype.split(/\s+/): the pieces between maximal runs of whitespace
\* (a leading or trailing run leaves an empty piece)
RECURSIVE SplitWsFrom(_, _, _, _)
SplitWsFrom(s, cur, acc, inRun) ==
    IF s = <<>> THEN Append(acc, cur)
    ELSE IF Head(s) \in WhiteSpace
         THEN IF inRun THEN SplitWsFrom(Tail(s), cur, acc, TRUE)
              ELSE SplitWsFrom(Tail(s), <<>>, Append(acc, cur), TRUE)
         ELSE SplitWsFrom(Tail(s), Append(cur, Head(s)), acc, FALSE)
SplitWhitespace(s) == SplitWsFrom(s, <<>>, <<>>, FALSE)

\* String.prototype.split(sep) for a one-character separator
RECURSIVE SplitOnFrom(_, _, _, _)
SplitOnFrom(s, sep, cur, acc) ==
    IF s = <<>> THEN Append(acc, cur)
    ELSE IF Head(s) = sep
         THEN SplitOnFrom(Tail(s), sep, <<>>, Append(acc, cur))
         ELSE SplitOnFrom(Tail(s), sep, Append(cur, Head(s)), acc)
SplitOn(s, sep) == SplitOnFrom(s, sep, <<>>, <<>>)

\* Array.prototype.sort((a, b) => a.start - b.start): stable, ascending start
RECURSIVE InsertByStart(_, _)
InsertByStart(sorted, x) ==
    IF sorted = <<>> THEN <<x>>
    ELSE IF sorted[Len(sorted)].start <= x.start THEN Append(sorted, x)
    ELSE Append(InsertByStart(SubSeq(sorted, 1, Len(sorted) - 1), x),
                sorted[Len(sorted)])
RECURSIVE SortByStart(_)
SortByStart(s) ==
    IF s = <<>> THEN <<>>
    ELSE InsertByStart(SortByStart(SubSeq(s, 1, Len(s) - 1)), s[Len(s)])

\* the keys of a Map filled in the order of `s`: first appearances, in order
RECURSIVE FirstSeen(_, _)
FirstSeen(s, acc) ==
    IF s = <<>> THEN acc
    ELSE IF \E i \in 1..Len(acc) : acc[i] = Head(s)
         THEN FirstSeen(Tail(s), acc)
         ELSE FirstSeen(Tail(s), Append(acc, Head(s)))

RECURSIVE Concat(_)
Concat(ss) == IF ss = <<>> THEN <<>> ELSE Head(ss) \o Concat(Tail(ss))

---------------------------------------------------------------------------
(* parseLectureTime.ts                                                     *)

DAY_MAP == [wol |-> 0, hwa |-> 1, su |-> 2, mok |-> 3, geum |-> 4, to |-> 5, il |-> 6]

PERIOD_START_MINUTES == 450
PERIOD_DURATION_MINUTES == 90

\* the display epoch of TimetableView (09:00) used for the parser's periods
periodToMinutes_Epoch(period) ==
    LET start == 540 + period * PERIOD_DURATION_MINUTES
    IN [start |-> start, end |-> start + PERIOD_DURATION_MINUTES]

periodToMinutes(period) ==
    LET start == PERIOD_START_MINUTES + period * PERIOD_DURATION_MINUTES
    IN [start |-> start, end |-> start + PERIOD_DURATION_MINUTES]

\* pair.match(/^(월|화|수|목|금|토|일)(\d+)$/)
MatchesPair(pair) ==
    /\ Len(pair) >= 2
    /\ pair[1] \in DOMAIN DAY_MAP
    /\ AllDigits(Tail(pair))

\* the body of the for loop: the slots one pair contributes (none or one)
SlotsOfPair(pair) ==
    IF ~MatchesPair(pair) THEN <<>>
    ELSE LET dayLabel == pair[1]
             period == DecimalValue(Tail(pair))
             day == DAY_MAP[dayLabel]
             t == periodToMinutes(period)
         IN IF period < 0 THEN <<>>
            ELSE <<[day |-> day, startMinutes |-> t.start, endMinutes |-> t.end]>>

parseLectureTime(lectureTime) ==
    LET trimmed == Trim(lectureTime)
    IN IF trimmed = <<>> THEN <<>>
       ELSE LET pairs == SplitWhitespace(trimmed)
            IN Concat([i \in 1..Len(pairs) |-> SlotsOfPair(pairs[i])])

---------------------------------------------------------------------------
(* TimetableView.tsx: constants                                            *)

DEFAULT_START_MINUTES == 540
DEFAULT_END_MINUTES == 1080
DEFAULT_DAYS == {0, 1, 2, 3, 4}

---------------------------------------------------------------------------
(* TimetableView.tsx: mergeConsecutiveSlots (Stage A)                      *)

\* String(day) inside a template literal
DayText(day) == <<Digits[day + 1]>>

\* const key = (s) => `${s.entry.학정번호}-${s.entry.분반}-${s.day}`
SlotKey(s) == s.entry.code \o <<"-">> \o s.entry.section \o <<"-">> \o DayText(s.day)

\* lines 30-43: the scan of one group, already sorted by start
RECURSIVE ScanRuns(_, _, _, _, _)
ScanRuns(group, i, runStart, runEnd, merged) ==
    LET run == [entry |-> group[1].entry, day |-> group[1].day,
                start |-> runStart, end |-> runEnd]
    IN IF i > Len(group) THEN Append(merged, run)
       ELSE IF group[i].start = runEnd
            THEN ScanRuns(group, i + 1, runStart, group[i].end, merged)
            ELSE ScanRuns(group, i + 1, group[i].start, group[i].end,
                          Append(merged, run))

\* lines 29-43: one group of the Map, sorted and scanned
MergeGroup(unsorted) ==
    LET group == SortByStart(unsorted)
    IN ScanRuns(group, 2, group[1].start, group[1].end, <<>>)

mergeConsecutiveSlots(slots) ==
    LET keys == FirstSeen([i \in 1..Len(slots) |-> SlotKey(slots[i])], <<>>)
        byEntryDay(k) == SelectSeq(slots, LAMBDA s : SlotKey(s) = k)
    IN Concat([j \in 1..Len(keys) |-> MergeGroup(byEntryDay(keys[j]))])

---------------------------------------------------------------------------
(* TimetableView.tsx: overlaps, mergeOverlappingSlots (Stage B)            *)

\* closed intervals: touching end points count as overlap
overlaps_Touching(aStart, aEnd, bStart, bEnd) == aStart <= bEnd /\ bStart <= aEnd
\* the second comparison turned round
overlaps_Flipped(aStart, aEnd, bStart, bEnd) == aStart < bEnd /\ aEnd < bStart

overlaps(aStart, aEnd, bStart, bEnd) == aStart < bEnd /\ bStart < aEnd

\* lines 76-82: `first` absorbs the other overlapping groups, in order
RECURSIVE Absorb(_, _)
Absorb(first, others) ==
    IF others = <<>> THEN first
    ELSE LET g == Head(others)
         IN Absorb([start |-> MathMin(first.start, g.start),
                    end |-> MathMax(first.end, g.end),
                    slots |-> first.slots \o g.slots],
                   Tail(others))

\* lines 68-83: the body of the loop over the day's slots
AddSlotToGroups(gs, s) ==
    LET idx == SelectSeq([i \in 1..Len(gs) |-> i],
                         LAMBDA i : overlaps(s.start, s.end, gs[i].start, gs[i].end))
    IN IF Len(idx) = 0
       THEN Append(gs, [start |-> s.start, end |-> s.end, slots |-> <<s>>])
       ELSE LET first == gs[idx[1]]
                withS == [start |-> MathMin(first.start, s.start),
                          end |-> MathMax(first.end, s.end),
                          slots |-> Append(first.slots, s)]
                others == [j \in 1..(Len(idx) - 1) |-> gs[idx[j + 1]]]
                merged == Absorb(withS, others)
                kept == SelectSeq([i \in 1..Len(gs) |-> i],
                                  LAMBDA i : i = idx[1] \/ ~\E j \in 1..Len(idx) : idx[j] = i)
            IN [j \in 1..Len(kept) |->
                   IF kept[j] = idx[1] THEN merged ELSE gs[kept[j]]]

\* lines 64-84: the groups of one day
RECURSIVE FoldSlots(_, _)
FoldSlots(gs, daySlots) ==
    IF daySlots = <<>> THEN gs
    ELSE FoldSlots(AddSlotToGroups(gs, Head(daySlots)), Tail(daySlots))
GroupsOfDay(unsorted) == FoldSlots(<<>>, SortByStart(unsorted))

\* const id = `${s.entry.학정번호}-${s.entry.분반}`
EntryId(entry) == entry.code \o <<"-">> \o entry.section

\* lines 86-94: the entries of a group, one per id, first seen first
RECURSIVE DistinctEntries(_, _, _)
DistinctEntries(slots, seen, acc) ==
    IF slots = <<>> THEN acc
    ELSE LET id == EntryId(Head(slots).entry)
         IN IF id \in seen
            THEN DistinctEntries(Tail(slots), seen, acc)
            ELSE DistinctEntries(Tail(slots), seen \cup {id},
                                 Append(acc, Head(slots).entry))

\* lines 95-101: the block pushed for one group
BlockOfGroup(day, group) ==
    LET es == DistinctEntries(group.slots, {}, <<>>)
    IN [day |-> day, start |-> group.start, end |-> group.end,
        entries |-> es, isConflict |-> Len(es) > 1]

\* the days of the Map byDay, in insertion order
DayOrder(slots) == FirstSeen([i \in 1..Len(slots) |-> slots[i].day], <<>>)

\* the local `groups` of every day, in the order of the outer loop, each
\* with the day it belongs to
AllGroups(slots) ==
    LET ds == DayOrder(slots)
        ofDay(d) == GroupsOfDay(SelectSeq(slots, LAMBDA s : s.day = d))
    IN Concat([j \in 1..Len(ds) |->
                  LET gs == ofDay(ds[j])
                  IN [k \in 1..Len(gs) |->
                         [day |-> ds[j], start |-> gs[k].start,
                          end |-> gs[k].end, slots |-> gs[k].slots]]])

mergeOverlappingSlots(slots) ==
    LET gs == AllGroups(slots)
    IN [k \in 1..Len(gs) |-> BlockOfGroup(gs[k].day, gs[k])]

---------------------------------------------------------------------------
(* TimetableView.tsx: timeToMinutes                                        *)

\* Number(text) for a text of digits, letters without numeric meaning and
\* blanks: blank -> 0, decimal digits -> their value, anything else -> NaN
ToNumber(text) ==
    LET t == Trim(text)
    IN IF t = <<>> THEN 0
       ELSE IF AllDigits(t) THEN DecimalValue(t)
       ELSE NaN

\* const [h, m] = time.split(':').map(Number);
\* if (Number.isNaN(h)) return DEFAULT_START_MINUTES;
\* return h * 60 + (Number.isNaN(m) ? 0 : m);
\* With no ':' in the text m is undefined, Number.isNaN(undefined) is false
\* and h * 60 + undefined is NaN.
timeToMinutes(time) ==
    LET parts == SplitOn(time, ":")
        h == ToNumber(parts[1])
    IN IF IsNaN(h) THEN DEFAULT_START_MINUTES
       ELSE IF Len(parts) < 2 THEN NaN
       ELSE LET m == ToNumber(parts[2])
            IN h * 60 + (IF IsNaN(m) THEN 0 ELSE m)

---------------------------------------------------------------------------
(* TimetableView.tsx: the useMemo body, lines 148-193                      *)

\* A percentage (x / totalMinutes) * 100 is kept as the exact fraction
\* num / den with den = totalMinutes >= 1; NaN is the fraction 0 / 0.
PercentNaN == [num |-> 0, den |-> 0]
PercentIsNaN(p) == p.den = 0
\* ((x - gridStart) / totalMinutes) * 100
PercentOf(x, total) ==
    IF IsNaN(x) \/ IsNaN(total) THEN PercentNaN
    ELSE [num |-> x * 100, den |-> total]
\* Math.min(100, Math.max(0, p))
ClampPercent(p) ==
    IF PercentIsNaN(p) THEN PercentNaN
    ELSE IF p.num < 0 THEN [num |-> 0, den |-> p.den]
    ELSE IF p.num > 100 * p.den THEN [num |-> 100 * p.den, den |-> p.den]
    ELSE p
\* Math.max(0, a - b) for two percentages of the same window
PercentDiff(a, b) ==
    IF PercentIsNaN(a) \/ PercentIsNaN(b) THEN PercentNaN
    ELSE IF a.num - b.num < 0 THEN [num |-> 0, den |-> a.den]
    ELSE [num |-> a.num - b.num, den |-> a.den]
\* p > 0
PercentPositive(p) == ~PercentIsNaN(p) /\ p.num > 0

\* lines 154-167: the slots pushed for the entries, in order
SlotsOfEntry(entry) ==
    LET slots == parseLectureTime(entry.lectureTime)
    IN [i \in 1..Len(slots) |->
           [entry |-> entry, day |-> slots[i].day,
            start |-> slots[i].startMinutes, end |-> slots[i].endMinutes]]
CollectSlots(es) == Concat([i \in 1..Len(es) |-> SlotsOfEntry(es[i])])

\* lines 150, 163: minStart after the loop
RECURSIVE MinStart(_, _)
MinStart(slots, acc) ==
    IF slots = <<>> THEN acc
    ELSE MinStart(Tail(slots), MathMin(acc, Head(slots).start))
\* lines 151, 164: maxEnd after the loop
RECURSIVE MaxEnd(_, _)
MaxEnd(slots, acc) ==
    IF slots = <<>> THEN acc
    ELSE MaxEnd(Tail(slots), MathMax(acc, Head(slots).end))
\* the days of the slots alone, without the default days
DaysSet_SlotsOnly(slots) == {slots[i].day : i \in 1..Len(slots)}
\* lines 152, 165: daysSet after the loop
DaysSet(slots) == DEFAULT_DAYS \cup {slots[i].day : i \in 1..Len(slots)}

\* [...set].sort((a, b) => a - b)
RECURSIVE SortedDays(_)
SortedDays(set) ==
    IF set = {} THEN <<>>
    ELSE LET lo == CHOOSE d \in set : \A e \in set : d <= e
         IN <<lo>> \o SortedDays(set \ {lo})

\* the least slot start alone, without the default start
GridStart_SlotsOnly(slots, cStart) ==
    IF IsSome(cStart) THEN timeToMinutes(TheValue(cStart))
    ELSE IF Len(slots) # 0 THEN MinStart(Tail(slots), slots[1].start)
    ELSE DEFAULT_START_MINUTES
\* the greatest slot end alone, without the default end
GridEnd_SlotsOnly(slots, cEnd) ==
    IF IsSome(cEnd) THEN timeToMinutes(TheValue(cEnd))
    ELSE IF Len(slots) # 0 THEN MaxEnd(Tail(slots), slots[1].end)
    ELSE DEFAULT_END_MINUTES

\* lines 169-172
GridStart(slots, cStart) ==
    IF IsSome(cStart) THEN timeToMinutes(TheValue(cStart))
    ELSE IF Len(slots) # 0 THEN MinStart(slots, DEFAULT_START_MINUTES)
    ELSE DEFAULT_START_MINUTES
GridEnd(slots, cEnd) ==
    IF IsSome(cEnd) THEN timeToMinutes(TheValue(cEnd))
    ELSE IF Len(slots) # 0 THEN MaxEnd(slots, DEFAULT_END_MINUTES)
    ELSE DEFAULT_END_MINUTES
\* line 173
Days(slots, incl) ==
    IF IsSome(incl) THEN SortedDays(TheValue(incl)) ELSE SortedDays(DaysSet(slots))

\* the length of the default window whatever the window is
TotalMinutes_Default(gStart, gEnd) == NumSub(DEFAULT_END_MINUTES, DEFAULT_START_MINUTES)

\* line 175
TotalMinutes(gStart, gEnd) == MathMax(1, NumSub(gEnd, gStart))

\* lines 180-189: the map callback
PositionBlock(s, gStart, gEnd) ==
    LET memoTotal == TotalMinutes(gStart, gEnd)
        topPercent ==
            ClampPercent(PercentOf(NumSub(MathMax(s.start, gStart), gStart), memoTotal))
        endPercent ==
            ClampPercent(PercentOf(NumSub(MathMin(s.end, gEnd), gStart), memoTotal))
        heightPercent == PercentDiff(endPercent, topPercent)
    IN [day |-> s.day, start |-> s.start, end |-> s.end, entries |-> s.entries,
        isConflict |-> s.isConflict,
        topPercent |-> topPercent, heightPercent |-> heightPercent]

\* lines 178-190
Blocks(display, ds, gStart, gEnd) ==
    LET shown == SelectSeq(display, LAMBDA s : \E i \in 1..Len(ds) : ds[i] = s.day)
        positioned == [i \in 1..Len(shown) |-> PositionBlock(shown[i], gStart, gEnd)]
    IN SelectSeq(positioned, LAMBDA b : PercentPositive(b.heightPercent))

\* TimetableView.tsx lines 13-14: the periods of the label column
VIEW_PERIOD_START_MINUTES == 540
PERIOD_DURATION == 90
LAST_PERIOD == 6
LABEL_STEP == 30

\* periods counted from 0: period p starts where period p + 1 does
PeriodInRange_ZeroBased(p, startMin, endMin) ==
    LET start == VIEW_PERIOD_START_MINUTES + p * PERIOD_DURATION
        end == start + PERIOD_DURATION
    IN IF NumLt(startMin, end) /\ NumLt(start, endMin)
       THEN <<[period |-> p, start |-> MathMax(start, startMin),
               end |-> MathMin(end, endMin)]>>
       ELSE <<>>

\* lines 113-123: the body of the loop for one period p
PeriodInRange(p, startMin, endMin) ==
    LET start == VIEW_PERIOD_START_MINUTES + (p - 1) * PERIOD_DURATION
        end == start + PERIOD_DURATION
    IN IF NumLt(startMin, end) /\ NumLt(start, endMin)
       THEN <<[period |-> p, start |-> MathMax(start, startMin),
               end |-> MathMin(end, endMin)]>>
       ELSE <<>>

getPeriodsInRange(startMin, endMin) ==
    Concat([p \in 1..LAST_PERIOD |-> PeriodInRange(p, startMin, endMin)])

\* the loop started one step after gridStart
StepLabels_SkipFirst(gStart, gEnd) ==
    IF NumLe(gStart, gEnd)
    THEN [k \in 1..((gEnd - gStart) \div LABEL_STEP) |-> gStart + LABEL_STEP * k]
    ELSE <<>>

\* lines 198-200: for (let m = gridStart; m <= gridEnd; m += step): the
\* loop runs once for each m = gridStart + step * k that is <= gridEnd
StepLabels(gStart, gEnd) ==
    IF NumLe(gStart, gEnd)
    THEN [k \in 1..((gEnd - gStart) \div LABEL_STEP + 1) |-> gStart + LABEL_STEP * (k - 1)]
    ELSE <<>>

\* lines 195-205
TimeLabels(gStart, gEnd) ==
    LET labels == StepLabels(gStart, gEnd)
    IN IF Len(labels) > 0 /\ NumLt(labels[Len(labels)], gEnd)
       THEN Append(labels, gEnd)
       ELSE labels

\* the difference taken the other way round
RenderTotalMinutes_Reversed(gStart, gEnd) == NumSub(gStart, gEnd)

\* line 212: const totalMinutes = gridEnd - gridStart
RenderTotalMinutes(gStart, gEnd) == NumSub(gEnd, gStart)

\* line 230: ((m - gridStart) / totalMinutes) * 100
TimeCell(m, gStart, total) == [top |-> PercentOf(NumSub(m, gStart), total)]

\* lines 280-281
PeriodCell(label, gStart, total) ==
    [period |-> label.period,
     top |-> PercentOf(NumSub(label.start, gStart), total),
     height |-> PercentOf(NumSub(label.end, label.start), total)]

\* The memo is recomputed for the current entries and view state.
Recompute(es, cStart, cEnd, incl) ==
    /\ allSlots' = CollectSlots(es)
    /\ gridStart' = GridStart(allSlots', cStart)
    /\ gridEnd' = GridEnd(allSlots', cEnd)
    /\ days' = Days(allSlots', incl)
    /\ mergedSlots' = mergeConsecutiveSlots(allSlots')
    /\ groups' = AllGroups(mergedSlots')
    /\ displaySlots' = mergeOverlappingSlots(mergedSlots')
    /\ blocks' = Blocks(displaySlots', days', gridStart', gridEnd')
    /\ timeLabels' = TimeLabels(gridStart', gridEnd')
    /\ periodLabels' = getPeriodsInRange(gridStart', gridEnd')
    /\ totalMinutes' = RenderTotalMinutes(gridStart', gridEnd')
    /\ timeCells' = [i \in 1..Len(timeLabels') |->
                        TimeCell(timeLabels'[i], gridStart', totalMinutes')]
    /\ periodCells' = [i \in 1..Len(periodLabels') |->
                          PeriodCell(periodLabels'[i], gridStart', totalMinutes')]
    /\ rendered' = TRUE

---------------------------------------------------------------------------
(* The inputs the model explores                                           *)

MaxEntries == 3     \* entries on the timetable at once
MaxTokens == 2      \* day/period tokens in one catalogue schedule string
MaxSlots == 4       \* day/period tokens of all entries on the timetable
MaxTextLen == 5     \* characters of a free-form schedule string

\* strings of length n over an alphabet
TextsOfLen(alphabet, n) == [1..n -> alphabet]
TextsUpTo(alphabet, n) == UNION {TextsOfLen(alphabet, k) : k \in 0..n}

\* course codes and sections: 학정번호 contains '-' in the data
\* (custom entries are `custom-<time>-<random>`), 분반 is any string
Codes == {<<"A">>, <<"A", "-", "1">>}
Sections == {<<"1">>, <<"1", "-", "1">>}

\* day/period tokens of catalogue schedule strings
Tokens == {<<"wol", "1">>, <<"wol", "2">>, <<"wol", "3">>, <<"hwa", "2">>}

\* tokens joined by one blank
RECURSIVE JoinTokens(_)
JoinTokens(ts) ==
    IF ts = <<>> THEN <<>>
    ELSE IF Len(ts) = 1 THEN ts[1]
    ELSE ts[1] \o <<" ">> \o JoinTokens(Tail(ts))
Schedules == {JoinTokens(ts) : ts \in TextsUpTo(Tokens, MaxTokens)}

Catalogue == [code : Codes, section : Sections, lectureTime : Schedules]

\* the number of tokens of a catalogue schedule string (two characters each)
TokenCount(text) == (Len(text) + 1) \div 3
RECURSIVE TotalTokens(_)
TotalTokens(es) ==
    IF es = <<>> THEN 0
    ELSE TokenCount(Head(es).lectureTime) + TotalTokens(Tail(es))
EntryLists == {es \in TextsUpTo(Catalogue, MaxEntries) : TotalTokens(es) <= MaxSlots}

\* characters of a free-form schedule string
LectureChars == {"wol", "to", "0", "1", " ", "x"}
TypedEntries ==
    {[code |-> <<"A">>, section |-> <<"1">>, lectureTime |-> t] :
        t \in TextsUpTo(LectureChars, MaxTextLen)}

---------------------------------------------------------------------------
(* The state machine                                                       *)

\* The component has been given its props and has not rendered yet.
Unrendered ==
    /\ customStart = None
    /\ customEnd = None
    /\ includedDays = None
    /\ rendered = FALSE
    /\ allSlots = <<>>
    /\ mergedSlots = <<>>
    /\ groups = <<>>
    /\ displaySlots = <<>>
    /\ gridStart = DEFAULT_START_MINUTES
    /\ gridEnd = DEFAULT_END_MINUTES
    /\ days = <<>>
    /\ blocks = <<>>
    /\ timeLabels = <<>>
    /\ periodLabels = <<>>
    /\ totalMinutes = DEFAULT_END_MINUTES - DEFAULT_START_MINUTES
    /\ timeCells = <<>>
    /\ periodCells = <<>>

\* TimetableView on its own: no TimetableSearch around it
NoSearch ==
    /\ cart = <<>>
    /\ currentPriority = 1
    /\ savedTimetables = [r \in 1..5 |-> <<>>]
    /\ timetableChecked = <<>>
    /\ storage = [kind |-> "absent"]
    /\ allWritesOk = TRUE
    /\ savePending = FALSE
    /\ opCount = 0

\* <TimetableView entries={...} />: catalogue entries, or one entry with a
\* free-form schedule string
Init ==
    /\ \/ entries \in EntryLists
       \/ \E e \in TypedEntries : entries = <<e>>
    /\ Unrendered
    /\ NoSearch

\* the render of TimetableView: the useMemo body, lines 148-193
Render ==
    /\ ~rendered
    /\ UNCHANGED <<entries, customStart, customEnd, includedDays>>
    /\ UNCHANGED searchVars
    /\ Recompute(entries, customStart, customEnd, includedDays)

Next == Render

Spec == Init /\ [][Next]_vars

---------------------------------------------------------------------------
(* The window and the label columns: schedules before 09:00, after 18:00  *)
(* and on a Saturday.  The three view-state fields of lines 144-146 keep  *)
(* their initial null: no code calls their setters.                       *)

MaxShown == 2       \* entries handed to the view

\* schedule strings with slots before 09:00, after 18:00 and on a Saturday
LayoutTokens == {<<"wol", "0">>, <<"wol", "1">>, <<"wol", "7">>, <<"to", "2">>}
LayoutSchedules == {JoinTokens(ts) : ts \in TextsUpTo(LayoutTokens, MaxTokens)}
LayoutCatalogue == [code : {<<"A">>, <<"B">>}, section : {<<"1">>}, lectureTime : LayoutSchedules]
LayoutLists == TextsUpTo(LayoutCatalogue, MaxShown)

InitLayout ==
    /\ entries \in LayoutLists
    /\ Unrendered
    /\ NoSearch

NextLayout == Render

SpecLayout == InitLayout /\ [][NextLayout]_vars

---------------------------------------------------------------------------
(* TimetableSearch (src/unnamed/part_001): the cart, the checked keys, the *)
(* five saved timetables and their copy in localStorage.  An entry has the *)
(* fields code (학정번호), section (분반), lectureTime (강의시간),           *)
(* professor (담당교수) and title (과목명).                                 *)

DEFAULT_PRIORITY == 1
PRIORITIES == 1..5

\* the property name of a priority in the stored JSON object
PropertyKey(rank) == Digits[rank + 1]
PropertyKeys == {PropertyKey(r) : r \in PRIORITIES}

\* a JavaScript Set, kept as the list of its members in insertion order
SetAdd(set, k) == IF \E i \in 1..Len(set) : set[i] = k THEN set ELSE Append(set, k)
SetDelete(set, k) == SelectSeq(set, LAMBDA x : x # k)
SetHas(set, k) == \E i \in 1..Len(set) : set[i] = k
\* new Set(list)
SetOf(list) == FirstSeen(list, <<>>)

defaultSavedTimetables == [r \in PRIORITIES |-> <<>>]

DefaultStoredState ==
    [cart |-> <<>>, currentPriority |-> DEFAULT_PRIORITY,
     savedTimetables |-> defaultSavedTimetables]

\* lines 41-49: an item of the stored cart with string 학정번호 and 과목명
IsTimetableEntry(e) == "code" \in DOMAIN e /\ "title" \in DOMAIN e

\* The stored item is absent, is no JSON, or is a JSON object with the
\* properties cart, currentPriority, savedTimetables (null when missing) and
\* timetableChecked (the older format; null when missing).
loadFromStorage(raw) ==
    IF raw.kind # "object" THEN DefaultStoredState
    ELSE LET validCart == SelectSeq(raw.cart, IsTimetableEntry)
             p == IF raw.currentPriority \in PRIORITIES
                  THEN raw.currentPriority ELSE DEFAULT_PRIORITY
             saved == IF IsSome(raw.savedTimetables)
                      THEN [r \in PRIORITIES |->
                               IF PropertyKey(r) \in DOMAIN TheValue(raw.savedTimetables)
                               THEN TheValue(raw.savedTimetables)[PropertyKey(r)]
                               ELSE <<>>]
                      ELSE IF IsSome(raw.timetableChecked)
                      THEN [r \in PRIORITIES |->
                               IF r = 1 THEN TheValue(raw.timetableChecked) ELSE <<>>]
                      ELSE defaultSavedTimetables
         IN [cart |-> validCart, currentPriority |-> p, savedTimetables |-> saved]

\* the saved lists written as they are, without the checked keys of the
\* current priority
saveToStorage_Stale(c, p, saved, checked) ==
    [kind |-> "object", cart |-> c, currentPriority |-> p,
     savedTimetables |-> Some([k \in PropertyKeys |->
         saved[CHOOSE r \in PRIORITIES : PropertyKey(r) = k]]),
     timetableChecked |-> None]

\* lines 70-92: the item written by localStorage.setItem
saveToStorage(c, p, saved, checked) ==
    [kind |-> "object", cart |-> c, currentPriority |-> p,
     savedTimetables |-> Some([k \in PropertyKeys |->
         IF k = PropertyKey(p) THEN checked
         ELSE saved[CHOOSE r \in PRIORITIES : PropertyKey(r) = k]]),
     timetableChecked |-> None]

isSameEntry(a, b) ==
    /\ a.code = b.code
    /\ a.section = b.section
    /\ a.lectureTime = b.lectureTime
    /\ a.professor = b.professor

\* `${학정번호}|${분반}|${강의시간}|${담당교수}`
entryKey(entry) ==
    entry.code \o <<"|">> \o entry.section \o <<"|">> \o entry.lectureTime
        \o <<"|">> \o entry.professor

\* the saved keys as they are, whether or not the cart holds them
timetableCheckedFromSaved_NoFilter(saved, c) == SetOf(saved)

timetableCheckedFromSaved(saved, c) ==
    LET cartKeys == {entryKey(c[i]) : i \in 1..Len(c)}
    IN SetOf(SelectSeq(saved, LAMBDA k : k \in cartKeys))

\* lines 227-230
entriesOnTimetable(c, checked) ==
    SelectSeq(c, LAMBDA e : SetHas(checked, entryKey(e)))

\* lines 136-149; `suffix` stands for ${Date.now()}-${random}
createCustomEntry(title, time, suffix) ==
    [code |-> <<"c", "u", "s", "t", "o", "m", "-">> \o suffix,
     section |-> <<>>, lectureTime |-> Trim(time), professor |-> <<>>,
     title |-> Trim(title)]

MaxCart == 3        \* entries in the cart
MaxOps == 4         \* handlers run after the mount

\* entries of the catalogue (assets/timetable.json): two rows that differ in
\* the title only, a course with two periods, and two rows whose keys are
\* the same text although their fields differ
CatalogueA ==
    [code |-> <<"A">>, section |-> <<"1">>, lectureTime |-> <<"wol", "1">>,
     professor |-> <<"P">>, title |-> <<"T">>]
CatalogueA2 ==
    [code |-> <<"A">>, section |-> <<"1">>, lectureTime |-> <<"wol", "1">>,
     professor |-> <<"P">>, title |-> <<"U">>]
CatalogueB ==
    [code |-> <<"B">>, section |-> <<"1">>, lectureTime |-> <<"wol", "1", " ", "wol", "2">>,
     professor |-> <<"Q">>, title |-> <<"V">>]
CatalogueX ==
    [code |-> <<"X">>, section |-> <<"1", "|">>, lectureTime |-> <<>>,
     professor |-> <<>>, title |-> <<"W">>]
CatalogueY ==
    [code |-> <<"X", "|", "1">>, section |-> <<>>, lectureTime |-> <<>>,
     professor |-> <<>>, title |-> <<"W">>]
SearchCatalogue == {CatalogueA, CatalogueA2, CatalogueB, CatalogueX, CatalogueY}

\* the fields of the custom entry form
CustomTitles == {<<>>, <<" ">>, <<"T", " ">>}
CustomTimes == {<<" ", "wol", "2">>}
CustomSuffixes == {<<"1", "-", "a">>, <<"1", "-", "b">>}

\* what localStorage may hold when the page opens
StoredItems ==
    { [kind |-> "absent"],
      [kind |-> "corrupt"],
      [kind |-> "object",
       cart |-> <<CatalogueA, [code |-> <<"Z">>]>>,
       currentPriority |-> 2,
       savedTimetables |-> Some([k \in PropertyKeys |->
           IF k = "1" THEN <<entryKey(CatalogueA)>>
           ELSE IF k = "2"
                THEN <<entryKey(CatalogueB), entryKey(CatalogueA), entryKey(CatalogueA)>>
                ELSE <<>>]),
       timetableChecked |-> None],
      [kind |-> "object",
       cart |-> <<CatalogueA, CatalogueB>>,
       currentPriority |-> 7,
       savedTimetables |-> None,
       timetableChecked |-> Some(<<entryKey(CatalogueB)>>)],
      [kind |-> "object",
       cart |-> <<CatalogueB>>,
       currentPriority |-> 3,
       savedTimetables |-> Some([k \in {"3"} |-> <<entryKey(CatalogueB)>>]),
       timetableChecked |-> None] }

\* lines 161-171: the first render of TimetableSearch.  The item found in
\* localStorage is read and not yet rewritten: the effect of lines 174-176
\* is scheduled and runs after the page, TimetableView included, has
\* rendered.
InitSearch ==
    /\ \E raw \in StoredItems :
          LET loaded == loadFromStorage(raw)
          IN /\ cart = loaded.cart
             /\ currentPriority = loaded.currentPriority
             /\ savedTimetables = loaded.savedTimetables
             /\ timetableChecked =
                   timetableCheckedFromSaved(
                       loaded.savedTimetables[loaded.currentPriority], loaded.cart)
             /\ storage = raw
    /\ allWritesOk = TRUE
    /\ savePending = TRUE
    /\ opCount = 0
    /\ entries = entriesOnTimetable(cart, timetableChecked)
    /\ Unrendered

\* lines 461-467 with no entry on the timetable: the placeholder is shown,
\* TimetableView is not mounted and nothing of the grid exists
Placeholder ==
    /\ rendered' = FALSE
    /\ allSlots' = <<>>
    /\ mergedSlots' = <<>>
    /\ groups' = <<>>
    /\ displaySlots' = <<>>
    /\ gridStart' = DEFAULT_START_MINUTES
    /\ gridEnd' = DEFAULT_END_MINUTES
    /\ days' = <<>>
    /\ blocks' = <<>>
    /\ timeLabels' = <<>>
    /\ periodLabels' = <<>>
    /\ totalMinutes' = DEFAULT_END_MINUTES - DEFAULT_START_MINUTES
    /\ timeCells' = <<>>
    /\ periodCells' = <<>>

\* the page has finished rendering: TimetableView, or the placeholder when
\* no entry is on the timetable
PageRendered == rendered \/ entries = <<>>

\* lines 461-463: the first render of TimetableView, which is mounted only
\* with at least one entry on the timetable
MountTimetable ==
    /\ entries # <<>>
    /\ Render

\* lines 174-176, the body of the effect: the item is written from the
\* state of the render that scheduled the effect; setItem may throw, which
\* saveToStorage ignores (lines 89-91)
WriteItem ==
    \/ /\ storage' = saveToStorage(cart, currentPriority, savedTimetables,
                                    timetableChecked)
       /\ allWritesOk' = allWritesOk
    \/ /\ storage' = storage
       /\ allWritesOk' = FALSE

\* lines 174-176: the scheduled effect runs, after the render of the page
SaveEffect ==
    /\ PageRendered
    /\ savePending
    /\ WriteItem
    /\ savePending' = FALSE
    /\ UNCHANGED <<cart, currentPriority, savedTimetables, timetableChecked, opCount>>
    /\ UNCHANGED <<entries, customStart, customEnd, includedDays, rendered, allSlots,
                   mergedSlots, groups, displaySlots, gridStart, gridEnd, days, blocks,
                   timeLabels, periodLabels, totalMinutes, timeCells, periodCells>>

\* The new state of a handler and the render it causes, of the timetable
\* or of its placeholder; the effect of lines 174-176 is scheduled again.
\* An effect still scheduled by the previous render runs before the new
\* render, with the state of the render that scheduled it.
Commit(c, p, saved, checked) ==
    /\ cart' = c
    /\ currentPriority' = p
    /\ savedTimetables' = saved
    /\ timetableChecked' = checked
    /\ opCount' = opCount + 1
    /\ IF savePending THEN WriteItem ELSE UNCHANGED <<storage, allWritesOk>>
    /\ savePending' = TRUE
    /\ entries' = entriesOnTimetable(c, checked)
    /\ UNCHANGED <<customStart, customEnd, includedDays>>
    /\ IF entries' # <<>>
       THEN Recompute(entries', customStart, customEnd, includedDays)
       ELSE Placeholder

\* lines 178-187
switchPriority ==
    /\ PageRendered /\ opCount < MaxOps
    /\ \E newPriority \in PRIORITIES :
          /\ newPriority # currentPriority
          /\ LET updated == [savedTimetables EXCEPT ![currentPriority] = timetableChecked]
             IN Commit(cart, newPriority, updated,
                       timetableCheckedFromSaved(updated[newPriority], cart))

\* lines 192-206, for a row of the search results
toggleCart ==
    /\ PageRendered /\ opCount < MaxOps
    /\ \E entry \in SearchCatalogue :
          IF \E i \in 1..Len(cart) : isSameEntry(cart[i], entry)
          THEN Commit(SelectSeq(cart, LAMBDA c : ~isSameEntry(c, entry)),
                      currentPriority, savedTimetables,
                      SetDelete(timetableChecked, entryKey(entry)))
          ELSE /\ Len(cart) < MaxCart
               /\ Commit(Append(cart, entry), currentPriority, savedTimetables,
                         SetAdd(timetableChecked, entryKey(entry)))

\* lines 208-215, for a row of the cart
removeFromCart ==
    /\ PageRendered /\ opCount < MaxOps
    /\ \E n \in 1..Len(cart) :
          LET entry == cart[n]
          IN Commit(SelectSeq(cart, LAMBDA c : ~isSameEntry(c, entry)),
                    currentPriority, savedTimetables,
                    SetDelete(timetableChecked, entryKey(entry)))

\* lines 217-225, for a row of the cart
toggleTimetable ==
    /\ PageRendered /\ opCount < MaxOps
    /\ \E n \in 1..Len(cart) :
          LET key == entryKey(cart[n])
          IN Commit(cart, currentPriority, savedTimetables,
                    IF SetHas(timetableChecked, key)
                    THEN SetDelete(timetableChecked, key)
                    ELSE SetAdd(timetableChecked, key))

\* lines 240-249
addCustomEntry ==
    /\ PageRendered /\ opCount < MaxOps
    /\ Len(cart) < MaxCart
    /\ \E customTitle \in CustomTitles, customTime \in CustomTimes,
          suffix \in CustomSuffixes :
          /\ Trim(customTitle) # <<>>
          /\ LET entry == createCustomEntry(Trim(customTitle), customTime, suffix)
             IN Commit(Append(cart, entry), currentPriority, savedTimetables,
                       SetAdd(timetableChecked, entryKey(entry)))

NextSearch ==
    MountTimetable \/ SaveEffect \/ switchPriority \/ toggleCart \/ removeFromCart \/ toggleTimetable
        \/ addCustomEntry

SpecSearch == InitSearch /\ [][NextSearch]_vars

---------------------------------------------------------------------------
(* Properties                                                              *)

\* ----- the parser ------------------------------------------------------

\* The reference reading of a schedule string: its tokens are the maximal
\* blank-free segments; a token is a slot token when it is one day label
\* followed by at least one decimal digit.
DayLabels == <<"wol", "hwa", "su", "mok", "geum", "to", "il">>
RefBlank(c) == c = " "
RefTokenStarts(text) ==
    {i \in 1..Len(text) : ~RefBlank(text[i]) /\ (i = 1 \/ RefBlank(text[i - 1]))}
RefTokenEnd(text, i) ==
    CHOOSE j \in i..Len(text) :
        /\ \A k \in i..j : ~RefBlank(text[k])
        /\ (j = Len(text) \/ RefBlank(text[j + 1]))
RefDigit(c) ==
    CASE c = "0" -> 0 [] c = "1" -> 1 [] c = "2" -> 2 [] c = "3" -> 3
      [] c = "4" -> 4 [] c = "5" -> 5 [] c = "6" -> 6 [] c = "7" -> 7
      [] c = "8" -> 8 [] c = "9" -> 9
RefIsSlotToken(tok) ==
    /\ Len(tok) >= 2
    /\ \E d \in 1..7 : DayLabels[d] = tok[1]
    /\ \A k \in 2..Len(tok) : tok[k] \in {"0", "1", "2", "3", "4", "5", "6", "7", "8", "9"}
RECURSIVE RefPeriod(_, _, _)
RefPeriod(tok, k, acc) ==
    IF k > Len(tok) THEN acc ELSE RefPeriod(tok, k + 1, acc * 10 + RefDigit(tok[k]))
RefSlotOfToken(entry, tok) ==
    LET period == RefPeriod(tok, 2, 0)
    IN [entry |-> entry,
        day |-> (CHOOSE d \in 1..7 : DayLabels[d] = tok[1]) - 1,
        start |-> 450 + 90 * period,
        end |-> 450 + 90 * period + 90]
RefSlotsOfEntry(entry) ==
    LET text == entry.lectureTime
        token(i) == SubSeq(text, i, RefTokenEnd(text, i))
        at == {i \in RefTokenStarts(text) : RefIsSlotToken(token(i))}
        nth(k) == CHOOSE i \in at : Cardinality({j \in at : j < i}) = k - 1
    IN [k \in 1..Cardinality(at) |-> RefSlotOfToken(entry, token(nth(k)))]

\* C6: parseLectureTime is 'filter then map in order': the slots collected
\* for the entries are, entry after entry and token after token, exactly one
\* slot per token <day label><digits> with day = the label's index,
\* start = 450 + 90 * period and end = start + 90; every other token adds
\* nothing; a blank or empty string gives no slot.  Nothing is deduplicated.
C6_ParserIsFilterMap ==
    rendered =>
        allSlots = Concat([e \in 1..Len(entries) |-> RefSlotsOfEntry(entries[e])])

\* a string with a malformed token (unknown label) next to a valid one
C6_Witness ==
    /\ rendered
    /\ Len(entries) = 1
    /\ entries[1].lectureTime \in {<<"x", "1", " ", "to", "1">>}
    /\ Len(allSlots) = 1
    /\ allSlots[1].day = 5 /\ allSlots[1].start = 540 /\ allSlots[1].end = 630


\* ----- Stage B: mergeOverlappingSlots ----------------------------------

Range(seq) == {seq[i] : i \in 1..Len(seq)}
Occurrences(seq, x) == Cardinality({i \in 1..Len(seq) : seq[i] = x})
MinOf(set) == CHOOSE x \in set : \A y \in set : x <= y
MaxOf(set) == CHOOSE x \in set : \A y \in set : x >= y

\* half-open overlap of two intervals of one day
RefOverlap(a, b) == a.day = b.day /\ a.start < b.end /\ b.start < a.end

\* the connected component of `from` in the overlap graph over `all`
RECURSIVE RefComponent(_, _)
RefComponent(from, all) ==
    LET more == {x \in all : \E y \in from : RefOverlap(x, y)}
    IN IF more \subseteq from THEN from ELSE RefComponent(from \cup more, all)

\* C1: Stage B partitions the Stage-A intervals of each day into exactly the
\* connected components of the half-open overlap relation: every interval
\* is a member of exactly one group, two intervals are members of the same
\* group iff a chain of pairwise overlapping intervals of their day links
\* them, a group never holds intervals of two days, and each block's
\* start / end are the least start / greatest end of its members.
C1_BlocksAreOverlapComponents ==
    rendered =>
        LET all == Range(mergedSlots)
        IN /\ Len(displaySlots) = Len(groups)
           /\ \A x \in all :
                 /\ Cardinality({k \in 1..Len(groups) : x \in Range(groups[k].slots)}) = 1
                 /\ \A k \in 1..Len(groups) :
                       x \in Range(groups[k].slots) =>
                          Occurrences(groups[k].slots, x) = Occurrences(mergedSlots, x)
           /\ \A k \in 1..Len(groups) :
                 LET members == Range(groups[k].slots)
                 IN /\ members # {}
                    /\ members \subseteq all
                    /\ \A x \in members : x.day = groups[k].day
                    /\ \A x \in members : members = RefComponent({x}, all)
                    /\ displaySlots[k].day = groups[k].day
                    /\ displaySlots[k].start = MinOf({x.start : x \in members})
                    /\ displaySlots[k].end = MaxOf({x.end : x \in members})

\* three intervals of one day in one block, the outer two only touching
C1_Witness ==
    /\ rendered
    /\ \E k \in 1..Len(groups) :
          \E a, b, c \in Range(groups[k].slots) :
             /\ RefOverlap(a, b) /\ RefOverlap(b, c)
             /\ a.end = c.start
             /\ ~RefOverlap(a, c)
             /\ a.entry # b.entry /\ b.entry # c.entry /\ a.entry # c.entry
             /\ displaySlots[k].start = a.start /\ displaySlots[k].end = c.end

\* C4: the Display Blocks of one day are pairwise non-overlapping.
C4_BlocksOfADayAreDisjoint ==
    rendered =>
        \A i, j \in 1..Len(displaySlots) :
           (i # j /\ displaySlots[i].day = displaySlots[j].day) =>
              ~(displaySlots[i].start < displaySlots[j].end
                   /\ displaySlots[j].start < displaySlots[i].end)

\* two blocks of one day that touch, one of them merged from two entries
C4_Witness ==
    /\ rendered
    /\ \E i, j \in 1..Len(displaySlots) :
          /\ displaySlots[i].day = displaySlots[j].day
          /\ displaySlots[i].end = displaySlots[j].start
          /\ displaySlots[i].isConflict


\* the (course code, section code) pair of an entry
CoursePair(entry) == <<entry.code, entry.section>>

\* the pairs whose parsed slots lie in a block: the slots of the block's day
\* inside [start, end)
Contributors(block) ==
    {CoursePair(s.entry) : s \in {x \in Range(allSlots) :
        x.day = block.day /\ block.start <= x.start /\ x.end <= block.end}}

\* C2: a Display Block is flagged as a conflict iff its intervals come from
\* at least two distinct (course code, section code) pairs.
C2_ConflictIffTwoCourses ==
    rendered =>
        \A k \in 1..Len(displaySlots) :
           displaySlots[k].isConflict <=> Cardinality(Contributors(displaySlots[k])) >= 2

\* ----- Stage A: mergeConsecutiveSlots ----------------------------------

\* the slots of one (course code, section code, day)
RefGroup(pair, day) == {s \in Range(allSlots) : CoursePair(s.entry) = pair /\ s.day = day}

\* the end of the run of exactly adjacent slots of `group` that reaches `end`
RECURSIVE RefRunEnd(_, _)
RefRunEnd(group, end) ==
    IF \E s \in group : s.start = end
    THEN RefRunEnd(group, (CHOOSE s \in group : s.start = end).end)
    ELSE end

\* the maximal runs of exactly adjacent slots of every group
RefRuns ==
    {<<CoursePair(s.entry), s.day, s.start, RefRunEnd(RefGroup(CoursePair(s.entry), s.day), s.end)>> :
        s \in {x \in Range(allSlots) :
                 ~\E y \in RefGroup(CoursePair(x.entry), x.day) : y.end = x.start}}

\* C3: Stage A groups the slots by (course code, section code, day) and
\* emits exactly the maximal runs of exactly adjacent slots of each group:
\* adjacent slots of a group become one interval, slots with a gap stay
\* apart, slots of different courses, sections or days are never merged.
C3_StageAEmitsMaximalRuns ==
    rendered =>
        /\ {<<CoursePair(m.entry), m.day, m.start, m.end>> : m \in Range(mergedSlots)} = RefRuns
        /\ Len(mergedSlots) = Cardinality(RefRuns)

\* C5: the intervals Stage A outputs for one (course code, section code,
\* day) are pairwise non-overlapping and in ascending start order.
C5_StageAGroupsSortedDisjoint ==
    rendered =>
        \A i, j \in 1..Len(mergedSlots) :
           (i < j /\ CoursePair(mergedSlots[i].entry) = CoursePair(mergedSlots[j].entry)
                  /\ mergedSlots[i].day = mergedSlots[j].day) =>
              /\ mergedSlots[i].start <= mergedSlots[j].start
              /\ ~(mergedSlots[i].start < mergedSlots[j].end
                     /\ mergedSlots[j].start < mergedSlots[i].end)


\* ----- the window and the positions of the blocks ----------------------

\* the window the data alone gives: the default 09:00-18:00 widened to the
\* earliest start and the latest end of the parsed slots
RefDataStart == MinOf({540} \cup {x.start : x \in Range(allSlots)})
RefDataEnd == MaxOf({1080} \cup {x.end : x \in Range(allSlots)})

\* C7: a Display Block of an active day appears in the positioned output
\* iff its clipped range is not empty (clippedEnd > clippedStart); a block
\* that appears has top% = (clippedStart - windowStart) / duration * 100 and
\* height% = (clippedEnd - clippedStart) / duration * 100 with
\* duration = max(1, windowEnd - windowStart), top% in [0, 100] and
\* height% in (0, 100]; the output holds nothing else.  (With a window bound
\* that is not a number no comparison succeeds and nothing appears.)
C7_BlocksClippedToWindow ==
    rendered =>
        LET numeric == ~IsNaN(gridStart) /\ ~IsNaN(gridEnd)
            duration == IF gridEnd - gridStart >= 1 THEN gridEnd - gridStart ELSE 1
            clippedStart(b) == IF b.start >= gridStart THEN b.start ELSE gridStart
            clippedEnd(b) == IF b.end <= gridEnd THEN b.end ELSE gridEnd
            visible == SelectSeq(displaySlots, LAMBDA b :
                          /\ b.day \in Range(days)
                          /\ numeric
                          /\ clippedEnd(b) > clippedStart(b))
        IN /\ Len(blocks) = Len(visible)
           /\ \A i \in 1..Len(blocks) :
                 LET b == visible[i]
                     p == blocks[i]
                 IN /\ p.day = b.day /\ p.start = b.start /\ p.end = b.end
                    /\ p.entries = b.entries /\ p.isConflict = b.isConflict
                    /\ p.topPercent.den > 0 /\ p.heightPercent.den > 0
                    /\ p.topPercent.num * duration
                          = (clippedStart(b) - gridStart) * 100 * p.topPercent.den
                    /\ p.heightPercent.num * duration
                          = (clippedEnd(b) - clippedStart(b)) * 100 * p.heightPercent.den
                    /\ 0 <= p.topPercent.num
                    /\ p.topPercent.num <= 100 * p.topPercent.den
                    /\ 0 < p.heightPercent.num
                    /\ p.heightPercent.num <= 100 * p.heightPercent.den

\* a window wider than 09:00-18:00: every display block is shown, one at the
\* top of the grid, one below it, each less high than the grid
C7_Witness ==
    /\ rendered
    /\ gridStart < 540
    /\ Len(displaySlots) >= 2
    /\ Len(blocks) = Len(displaySlots)
    /\ \E i \in 1..Len(blocks) :
          /\ blocks[i].start = gridStart
          /\ blocks[i].topPercent.num = 0
    /\ \E i \in 1..Len(blocks) :
          /\ blocks[i].start > gridStart
          /\ blocks[i].topPercent.num > 0
          /\ blocks[i].heightPercent.num > 0
          /\ blocks[i].heightPercent.num < 100 * blocks[i].heightPercent.den

\* C8 as stated: without custom start and end the window is the least slot
\* start and the greatest slot end when a slot exists, 09:00-18:00 otherwise.
C8_WindowIsSlotRange ==
    (rendered /\ customStart = None /\ customEnd = None) =>
        IF allSlots = <<>>
        THEN gridStart = 540 /\ gridEnd = 1080
        ELSE /\ gridStart = MinOf({x.start : x \in Range(allSlots)})
             /\ gridEnd = MaxOf({x.end : x \in Range(allSlots)})

\* C8, amended: without custom start and end the window start is the lesser
\* of 540 and the least slot start and the window end is the greater of 1080
\* and the greatest slot end; without slots the window is (540, 1080).
C8_WindowIsWidenedDefault ==
    (rendered /\ customStart = None /\ customEnd = None) =>
        /\ gridStart = RefDataStart
        /\ gridEnd = RefDataEnd
        /\ allSlots = <<>> => (gridStart = 540 /\ gridEnd = 1080)

\* every slot starts after 09:00 and one ends after 18:00
C8_Witness ==
    /\ rendered /\ customStart = None /\ customEnd = None
    /\ allSlots # <<>>
    /\ \A x \in Range(allSlots) : x.start > 540
    /\ \E x \in Range(allSlots) : x.end > 1080
    /\ gridStart = 540
    /\ gridEnd > 1080

\* C9: without custom start and end the window covers 09:00-18:00 and every
\* parsed slot, and is no wider than that needs.
C9_WindowCoversDefaultAndSlots ==
    (rendered /\ customStart = None /\ customEnd = None) =>
        /\ gridStart <= 540
        /\ gridEnd >= 1080
        /\ \A x \in Range(allSlots) : gridStart <= x.start /\ x.end <= gridEnd
        /\ gridStart = 540 \/ \E x \in Range(allSlots) : x.start = gridStart
        /\ gridEnd = 1080 \/ \E x \in Range(allSlots) : x.end = gridEnd

\* a slot before 09:00 and a slot after 18:00
C9_Witness ==
    /\ rendered /\ customStart = None /\ customEnd = None
    /\ gridStart < 540
    /\ gridEnd > 1080

\* ----- the label columns ------------------------------------------------

C14_TimeLabelsStepToWindowEnd ==
    (rendered /\ ~IsNaN(gridStart) /\ ~IsNaN(gridEnd) /\ gridStart <= gridEnd) =>
        LET steps == (gridEnd - gridStart) \div 30
            tail == IF (gridEnd - gridStart) % 30 = 0 THEN 0 ELSE 1
        IN /\ Len(timeLabels) = steps + 1 + tail
           /\ \A i \in 1..(steps + 1) : timeLabels[i] = gridStart + 30 * (i - 1)
           /\ timeLabels[1] = gridStart
           /\ timeLabels[Len(timeLabels)] = gridEnd
           /\ \A i \in 1..(Len(timeLabels) - 1) : timeLabels[i] < timeLabels[i + 1]
           /\ \A i \in 1..Len(timeLabels) :
                 gridStart <= timeLabels[i] /\ timeLabels[i] <= gridEnd

\* a window from before 09:00 to after 18:00: the labels step by 30 from
\* its start and the last stepped value is its end
C14_Witness ==
    /\ rendered
    /\ gridStart < 540 /\ gridEnd > 1080
    /\ Len(timeLabels) = (gridEnd - gridStart) \div 30 + 1
    /\ timeLabels[1] = gridStart
    /\ timeLabels[2] = gridStart + 30
    /\ timeLabels[Len(timeLabels)] = gridEnd

C12_ActiveDays ==
    rendered =>
        LET expected == IF includedDays # None THEN includedDays[1]
                        ELSE (0..4) \cup {x.day : x \in Range(allSlots)}
        IN /\ Range(days) = expected
           /\ \A i \in 1..(Len(days) - 1) : days[i] < days[i + 1]
           /\ includedDays = None => \A x \in Range(allSlots) : x.day \in Range(days)

\* no override and a slot on a Saturday: the list is Monday to Saturday
C12_Witness ==
    /\ rendered
    /\ includedDays = None
    /\ \E x \in Range(allSlots) : x.day = 5
    /\ days = <<0, 1, 2, 3, 4, 5>>

\* ----- the entries of a block --------------------------------------------

\* the parsed slots inside a block, by their position in allSlots
RefSlotsIn(block) ==
    {i \in 1..Len(allSlots) :
        /\ allSlots[i].day = block.day
        /\ block.start <= allSlots[i].start
        /\ allSlots[i].end <= block.end}

\* where a (course code, section code) pair first appears in a block: its
\* earliest start there, and its first slot of that day in the input
RefFirstStart(block, pair) ==
    MinOf({allSlots[i].start : i \in {j \in RefSlotsIn(block) :
                                         CoursePair(allSlots[j].entry) = pair}})
RefFirstIndex(block, pair) ==
    MinOf({i \in 1..Len(allSlots) :
              /\ CoursePair(allSlots[i].entry) = pair
              /\ allSlots[i].day = block.day})

\* C13: the entries list of a Display Block holds every distinct (course
\* code, section code) pair that contributed an interval to the block
\* exactly once, ordered by first appearance among the member intervals
\* (ascending start, ties in the input order of the entries); two entries X
\* then Y naming the same slot give one block with isConflict = true and
\* entries = [X, Y].
C13_EntriesAreDistinctContributors ==
    rendered =>
        \A k \in 1..Len(displaySlots) :
           LET b == displaySlots[k]
               ps == [i \in 1..Len(b.entries) |-> CoursePair(b.entries[i])]
           IN /\ Range(ps) = Contributors(b)
              /\ Len(ps) = Cardinality(Contributors(b))
              /\ \A i \in 1..(Len(ps) - 1) :
                    \/ RefFirstStart(b, ps[i]) < RefFirstStart(b, ps[i + 1])
                    \/ /\ RefFirstStart(b, ps[i]) = RefFirstStart(b, ps[i + 1])
                       /\ RefFirstIndex(b, ps[i]) < RefFirstIndex(b, ps[i + 1])
              /\ (Len(entries) = 2 /\ Len(allSlots) = 2
                    /\ CoursePair(entries[1]) # CoursePair(entries[2])
                    /\ allSlots[1].entry = entries[1] /\ allSlots[2].entry = entries[2]
                    /\ allSlots[1].day = allSlots[2].day
                    /\ allSlots[1].start = allSlots[2].start)
                   => (Len(displaySlots) = 1 /\ b.isConflict /\ b.entries = entries)


\* ----- the cart and its stored copy --------------------------------------

\* the keys of the entries in the cart
RefCartKeys == {entryKey(cart[i]) : i \in 1..Len(cart)}

\* C16: the keys checked for display are keys of entries in the cart; the
\* entries passed to the timetable are exactly the cart entries whose key
\* is checked, in cart order, so an entry that is not in the cart is never
\* displayed.
C16_CheckedKeysAreInCart ==
    /\ Range(timetableChecked) \subseteq RefCartKeys
    /\ entries = SelectSeq(cart, LAMBDA e : entryKey(e) \in Range(timetableChecked))
    /\ Range(entries) \subseteq Range(cart)

\* after some handlers: a key is checked, and the saved list of another
\* priority still names an entry that has left the cart
C16_Witness ==
    /\ opCount > 0
    /\ timetableChecked # <<>>
    /\ entries # <<>>
    /\ \E r \in 1..5 :
          /\ r # currentPriority
          /\ \E i \in 1..Len(savedTimetables[r]) : savedTimetables[r][i] \notin RefCartKeys

=============================================================================
